---- MODULE Spec2Model ----
(***************************************************************************)
(* Inter-canister call sites of icc_rust_docs (caller, new_caller and      *)
(* icc_rust_docs_backend) as one state machine: one invocation of one      *)
(* entry point, the call it has in flight, the response of the call        *)
(* facility and the match that handles the response.                       *)
(*                                                                         *)
(* Time is counted in units of five minutes.  A message execution (the     *)
(* code between two awaits) is one atomic step; ic_cdk::api::time() is     *)
(* constant within it.                                                     *)
(***************************************************************************)
EXTENDS Integers, FiniteSets, Sequences, TLC

\* Latest time the model reaches.
MaxTime == 4

\* Most responses the call facility delivers within one time unit.
MaxPerTick == 2

\* stubborn_set: Duration::from_secs(10 * 60), in units of five minutes.
Timeout == 2

\* Largest value a caller passes for the counter.
MaxValue == 1

\* Cycles balance of the canister before the invocation, in 10^9 cycles.
InitialBalance == 20

\* get_exchange_rate: XRC_FEES = 1_000_000_000, in 10^9 cycles.
XRC_FEES == 1

\* sign_message: with_cycles(10_000_000_000), in 10^9 cycles.
SIGN_CYCLES == 10

VARIABLES
    fn,            \* the entry point that was invoked ("none" before)
    pc,            \* Idle, Awaiting, Handling, Returned, Panicked
    phase,         \* icrc1_transfer: "fee" while the fee call is pending
    now,           \* ic_cdk::api::time()
    deadline,      \* stubborn_set: time() + timeout
    attempts,      \* calls of the operation issued so far
    outcome,       \* result of the latest await
    failKinds,     \* kinds of the failed attempts so far
    failed,        \* number of failed attempts so far
    executed,      \* times the callee applied the operation
    result,        \* value returned to the caller of the entry point
    delivered,     \* responses delivered in the current time unit
    lastIssuedAt,  \* time at which the latest attempt was issued
    inFlight,      \* calls issued and not yet answered
    step,          \* position in the sequence of calls of the entry point
    arg,           \* argument built for the calls of the operation
    sent,          \* what the attempts of the operation carried
    balance,       \* cycles balance of this canister
    counter,       \* value held by the counter canister
    replies,       \* values bound from the replies so far
    interfered     \* another flow wrote the counter since this flow's
                   \* first call or latest set was executed

vars == <<fn, pc, phase, now, deadline, attempts, outcome, failKinds, failed,
          executed, result, delivered, lastIssuedAt, inFlight, step, arg, sent,
          balance, counter, replies, interfered>>

----------------------------------------------------------------------------
(* Raw outcomes of one call *)

RejectCodes == {"SysFatal", "SysTransient", "CanisterReject"}

NoOutcome == [type |-> "None", code |-> "none", sync |-> FALSE, app |-> "none"]

Rejected(c, s) ==
    [type |-> "CallRejected", code |-> c, sync |-> s, app |-> "none"]

\* a: "Value" for a plain reply, "Ok" / "Err" for a reply that is a Result
Delivered(a) == [type |-> "Ok", code |-> "none", sync |-> FALSE, app |-> a]

OutcomeUnknown(t) == [type |-> t, code |-> "none", sync |-> FALSE, app |-> "none"]

CandidDecodeFailed == OutcomeUnknown("CandidDecodeFailed")
CanisterError == OutcomeUnknown("CanisterError")
SysUnknown == OutcomeUnknown("SysUnknown")

IsFailure(o) == o.type \notin {"None", "Ok"}

FailureKinds == {"Fatal", "SyncTransient", "AsyncTransient", "CalleeError",
                 "DecodeFailure", "ExecutionUnknown"}

\* classify without the arm for RejectCode::CanisterReject
classify_no_canister_reject(o) ==
    CASE o.type = "CallRejected" /\ o.code = "SysFatal" -> "Fatal"
      [] o.type = "CallRejected" /\ o.code = "SysTransient" /\ o.sync -> "SyncTransient"
      [] o.type = "CallRejected" /\ o.code = "SysTransient" /\ ~o.sync -> "AsyncTransient"
      [] o.type = "CandidDecodeFailed" -> "DecodeFailure"
      [] o.type = "CanisterError" -> "CalleeError"
      [] o.type = "SysUnknown" -> "ExecutionUnknown"
      [] OTHER -> "None"

\* The failure kind the match arms distinguish.
classify(o) ==
    CASE o.type = "CallRejected" /\ o.code = "SysFatal" -> "Fatal"
      [] o.type = "CallRejected" /\ o.code = "SysTransient" /\ o.sync -> "SyncTransient"
      [] o.type = "CallRejected" /\ o.code = "SysTransient" /\ ~o.sync -> "AsyncTransient"
      [] o.type = "CallRejected" /\ o.code = "CanisterReject" -> "CalleeError"
      [] o.type = "CandidDecodeFailed" -> "DecodeFailure"
      [] o.type = "CanisterError" -> "CalleeError"
      [] o.type = "SysUnknown" -> "ExecutionUnknown"
      [] OTHER -> "None"

\* ic_cdk's immediately_retryable() is used but not defined in the repository.
\* It is taken as the comments of call_increment describe it: a transient
\* rejection can be retried at once unless it is synchronous.
immediately_retryable(e) == e.code = "SysTransient" /\ ~e.sync

----------------------------------------------------------------------------
(* The call sites *)

Functions == {"stubborn_set", "icrc1_get_fee", "icrc1_transfer", "icp_transfer",
              "get_exchange_rate", "sign_message", "call_increment",
              "call_get_and_set", "set_then_get", "increment_twice"}

\* Entry points that await a fixed sequence of calls and expect() each reply.
ExpectSites == {"call_get_and_set", "set_then_get", "increment_twice"}

\* Entry points that call the counter canister.
CounterSites == ExpectSites \cup {"stubborn_set", "call_increment"}

Values == 0..MaxValue

RetryLoops == {"stubborn_set", "icrc1_get_fee", "icrc1_transfer"}

\* Call::bounded_wait / Call::unbounded_wait / Call::new of each call.
WaitDiscipline_icp_bounded(f, ph) ==
    IF f \in {"call_increment", "call_get_and_set", "set_then_get",
              "increment_twice"}
    THEN "Unbounded"
    ELSE "Bounded"

WaitDiscipline(f, ph) ==
    IF f \in {"icp_transfer", "call_increment", "call_get_and_set",
              "set_then_get", "increment_twice"}
    THEN "Unbounded"
    ELSE "Bounded"

\* created_at_time: Some(time()) makes the ledger deduplicate the transfer.
DedupNone(f) == FALSE

Dedup(f) == f = "icrc1_transfer"

\* Operations the call sites treat as safe to execute more than once.
Idempotent(f) == f \in {"stubborn_set", "icrc1_get_fee"} \/ Dedup(f)

\* The calls of the entry points that await a fixed sequence of calls.
call_get_and_set_calls == <<"get_and_set">>

set_then_get_calls_swapped == <<"get", "set">>

set_then_get_calls == <<"set", "get">>

increment_twice_calls_one_inc == <<"get", "inc", "get">>

increment_twice_calls == <<"get", "inc", "inc", "get">>

Calls(f) ==
    CASE f = "call_get_and_set" -> call_get_and_set_calls
      [] f = "set_then_get" -> set_then_get_calls
      [] f = "increment_twice" -> increment_twice_calls

\* Canister and method the k-th call of an entry point goes to.
Target(f, ph) ==
    CASE f \in CounterSites -> "counter"
      [] f \in {"icrc1_get_fee", "icp_transfer"} -> "ledger"
      [] f = "icrc1_transfer" -> IF ph = "fee" THEN "canister_self" ELSE "ledger"
      [] f = "get_exchange_rate" -> "xrc"
      [] f = "sign_message" -> "management_canister"

\* Method with stubborn_set calling the counter's inc instead of set
Method_stubborn_inc(f, ph, k) ==
    CASE f \in ExpectSites -> Calls(f)[k]
      [] f = "stubborn_set" -> "inc"
      [] f = "call_increment" -> "increment"
      [] f = "icrc1_get_fee" -> "icrc1_fee"
      [] f = "icrc1_transfer" -> IF ph = "fee" THEN "icrc1_get_fee" ELSE "icrc1_transfer"
      [] f = "icp_transfer" -> "transfer"
      [] f = "get_exchange_rate" -> "get_exchange_rate"
      [] f = "sign_message" -> "sign_with_ecdsa"

Method(f, ph, k) ==
    CASE f \in ExpectSites -> Calls(f)[k]
      [] f = "stubborn_set" -> "set"
      [] f = "call_increment" -> "increment"
      [] f = "icrc1_get_fee" -> "icrc1_fee"
      [] f = "icrc1_transfer" -> IF ph = "fee" THEN "icrc1_get_fee" ELSE "icrc1_transfer"
      [] f = "icp_transfer" -> "transfer"
      [] f = "get_exchange_rate" -> "get_exchange_rate"
      [] f = "sign_message" -> "sign_with_ecdsa"

\* The argument of the operation, built once before the first attempt.
\* created_at_time is -1 for None.
BuildArg(f, v, t) ==
    [value |-> v, created_at_time |-> IF f = "icrc1_transfer" THEN t ELSE -1]

\* AttemptArg building the argument anew for every attempt
AttemptArg_rebuilt(a, t) == [a EXCEPT !.created_at_time = t]

\* The argument an attempt issued at time t carries: with_arg(&arg).
AttemptArg(a, t) == a

\* Cycles attached to a call: with_cycles.
Cycles(f, ph) ==
    CASE f = "get_exchange_rate" -> XRC_FEES
      [] f = "sign_message" -> SIGN_CYCLES
      [] OTHER -> 0

\* Replies that are themselves a Result<_, _>.
NestedReply(f, ph) ==
    ph = "main" /\ f \in {"icp_transfer", "icrc1_transfer", "get_exchange_rate"}

----------------------------------------------------------------------------
(* What each entry point does with the outcome of its await *)

Success == [ok |-> TRUE, msg |-> "ok", err |-> NoOutcome]
Failure(m, e) == [ok |-> FALSE, msg |-> m, err |-> e]
NoResult == [ok |-> FALSE, msg |-> "none", err |-> NoOutcome]

Continue == [act |-> "continue", res |-> NoResult]
Return(r) == [act |-> "return", res |-> r]
Panic(m, e) == [act |-> "panic", res |-> Failure(m, e)]
Proceed == [act |-> "proceed", res |-> NoResult]
NextCall == [act |-> "next", res |-> NoResult]

TimedOut == Failure("Timed out while trying to set the value", NoOutcome)

\* stubborn_set_match without the `return` of the Ok arm
stubborn_set_match_no_return(o, t, d) ==
    CASE o.type = "Ok" -> Continue
      [] o.type = "CallRejected" /\ immediately_retryable(o) ->
            IF t > d THEN Return(TimedOut) ELSE Continue
      [] o.type = "CallRejected" /\ ~immediately_retryable(o) ->
            Return(Failure("Failed to get the value and cannot retry", o))
      [] o.type = "CandidDecodeFailed" ->
            Return(Failure("The counter canister returned an non-unit response", o))
      [] o.type = "CanisterError" ->
            Return(Failure("The counter canister returned an error", o))
      [] o.type = "SysUnknown" ->
            IF t > d THEN Return(TimedOut) ELSE Continue

\* stubborn_set_match without the deadline test of the SysUnknown arm
stubborn_set_match_no_deadline(o, t, d) ==
    CASE o.type = "Ok" -> Return(Success)
      [] o.type = "CallRejected" /\ immediately_retryable(o) ->
            IF t > d THEN Return(TimedOut) ELSE Continue
      [] o.type = "CallRejected" /\ ~immediately_retryable(o) ->
            Return(Failure("Failed to get the value and cannot retry", o))
      [] o.type = "CandidDecodeFailed" ->
            Return(Failure("The counter canister returned an non-unit response", o))
      [] o.type = "CanisterError" ->
            Return(Failure("The counter canister returned an error", o))
      [] o.type = "SysUnknown" -> Continue

\* stubborn_set_match without the deadline test of the CallRejected arm
stubborn_set_match_reject_no_deadline(o, t, d) ==
    CASE o.type = "Ok" -> Return(Success)
      [] o.type = "CallRejected" /\ immediately_retryable(o) -> Continue
      [] o.type = "CallRejected" /\ ~immediately_retryable(o) ->
            Return(Failure("Failed to get the value and cannot retry", o))
      [] o.type = "CandidDecodeFailed" ->
            Return(Failure("The counter canister returned an non-unit response", o))
      [] o.type = "CanisterError" ->
            Return(Failure("The counter canister returned an error", o))
      [] o.type = "SysUnknown" ->
            IF t > d THEN Return(TimedOut) ELSE Continue

\* stubborn_set_match testing the deadline before returning a success
stubborn_set_match_deadline_on_ok(o, t, d) ==
    CASE o.type = "Ok" -> IF t > d THEN Return(TimedOut) ELSE Return(Success)
      [] o.type = "CallRejected" /\ immediately_retryable(o) ->
            IF t > d THEN Return(TimedOut) ELSE Continue
      [] o.type = "CallRejected" /\ ~immediately_retryable(o) ->
            Return(Failure("Failed to get the value and cannot retry", o))
      [] o.type = "CandidDecodeFailed" ->
            Return(Failure("The counter canister returned an non-unit response", o))
      [] o.type = "CanisterError" ->
            Return(Failure("The counter canister returned an error", o))
      [] o.type = "SysUnknown" ->
            IF t > d THEN Return(TimedOut) ELSE Continue

stubborn_set_match(o, t, d) ==
    CASE o.type = "Ok" -> Return(Success)
      [] o.type = "CallRejected" /\ immediately_retryable(o) ->
            IF t > d THEN Return(TimedOut) ELSE Continue
      [] o.type = "CallRejected" /\ ~immediately_retryable(o) ->
            Return(Failure("Failed to get the value and cannot retry", o))
      [] o.type = "CandidDecodeFailed" ->
            Return(Failure("The counter canister returned an non-unit response", o))
      [] o.type = "CanisterError" ->
            Return(Failure("The counter canister returned an error", o))
      [] o.type = "SysUnknown" ->
            IF t > d THEN Return(TimedOut) ELSE Continue

\* icrc1_get_fee_match retrying every synchronous rejection
icrc1_get_fee_match_any_sync(o, t, d) ==
    CASE o.type = "Ok" -> Return(Success)
      [] o.type = "CallRejected" ->
            IF o.sync
            THEN Continue
            ELSE Return(Failure("Irrecoverable error", o))
      [] o.type = "SysUnknown" -> Continue
      [] o.type = "CandidDecodeFailed" -> Return(Failure("Unable to decode the fee", o))
      [] o.type = "CanisterError" -> Return(Failure("Ledger crashed", o))

\* icrc1_get_fee_match giving up on SysUnknown once a deadline has passed
icrc1_get_fee_match_deadline(o, t, d) ==
    CASE o.type = "Ok" -> Return(Success)
      [] o.type = "CallRejected" ->
            IF o.sync /\ o.code = "SysTransient"
            THEN Continue
            ELSE Return(Failure("Irrecoverable error", o))
      [] o.type = "SysUnknown" -> IF t > d THEN Return(TimedOut) ELSE Continue
      [] o.type = "CandidDecodeFailed" -> Return(Failure("Unable to decode the fee", o))
      [] o.type = "CanisterError" -> Return(Failure("Ledger crashed", o))

icrc1_get_fee_match(o, t, d) ==
    CASE o.type = "Ok" -> Return(Success)
      [] o.type = "CallRejected" ->
            IF o.sync /\ o.code = "SysTransient"
            THEN Continue
            ELSE Return(Failure("Irrecoverable error", o))
      [] o.type = "SysUnknown" -> Continue
      [] o.type = "CandidDecodeFailed" -> Return(Failure("Unable to decode the fee", o))
      [] o.type = "CanisterError" -> Return(Failure("Ledger crashed", o))

\* icrc1_transfer_fee_match going on to the transfer when the fee call failed
icrc1_transfer_fee_match_ignore_error(o, t, d) ==
    Proceed

\* The fee call that precedes the loop: `?` returns on any error.
icrc1_transfer_fee_match(o, t, d) ==
    IF o.type = "Ok"
    THEN Proceed
    ELSE Return(Failure("Error obtaining the fee from the ledger canister", o))

\* icrc1_transfer_match retrying when the ledger crashed
icrc1_transfer_match_retry_crash(o, t, d) ==
    CASE o.type = "Ok" /\ o.app = "Ok" -> Continue
      [] o.type = "Ok" /\ o.app = "Err" -> Continue
      [] o.type = "SysUnknown" -> Continue
      [] o.type = "CallRejected" ->
            IF o.sync /\ o.code = "SysTransient"
            THEN Continue
            ELSE Return(Failure("Irrecoverable error", o))
      [] o.type = "CandidDecodeFailed" ->
            Return(Failure("Unable to decode the ledger response", o))
      [] o.type = "CanisterError" -> Continue

\* The arms for Ok(Ok(_)) and Ok(Err(e)) evaluate to a value and do not
\* return, so the loop body ends and the loop iterates.
icrc1_transfer_match(o, t, d) ==
    CASE o.type = "Ok" /\ o.app = "Ok" -> Continue
      [] o.type = "Ok" /\ o.app = "Err" -> Continue
      [] o.type = "SysUnknown" -> Continue
      [] o.type = "CallRejected" ->
            IF o.sync /\ o.code = "SysTransient"
            THEN Continue
            ELSE Return(Failure("Irrecoverable error", o))
      [] o.type = "CandidDecodeFailed" ->
            Return(Failure("Unable to decode the ledger response", o))
      [] o.type = "CanisterError" -> Return(Failure("Ledger crashed", o))

\* icp_transfer_match sending the transfer again after a rejection
icp_transfer_match_retry_reject(o, t, d) ==
    CASE o.type = "Ok" /\ o.app = "Ok" -> Return(Success)
      [] o.type = "Ok" /\ o.app = "Err" -> Return(Failure("Ledger returned an error", o))
      [] o.type = "CallRejected" -> Continue
      [] o.type = "CandidDecodeFailed" -> Panic("Decoding failed", o)
      [] o.type = "CanisterError" -> Panic("Ledger crashed", o)
      [] o.type = "SysUnknown" -> Panic("unreachable", o)

icp_transfer_match(o, t, d) ==
    CASE o.type = "Ok" /\ o.app = "Ok" -> Return(Success)
      [] o.type = "Ok" /\ o.app = "Err" -> Return(Failure("Ledger returned an error", o))
      [] o.type = "CallRejected" -> Return(Failure("Error calling ledger canister", o))
      [] o.type = "CandidDecodeFailed" -> Panic("Decoding failed", o)
      [] o.type = "CanisterError" -> Panic("Ledger crashed", o)
      [] o.type = "SysUnknown" -> Panic("unreachable", o)

\* get_exchange_rate_match reporting success when the call failed
get_exchange_rate_match_swallow(o, t, d) ==
    CASE o.type = "Ok" /\ o.app = "Ok" -> Return(Success)
      [] o.type = "Ok" /\ o.app = "Err" -> Return(Failure("XRC returned an error", o))
      [] OTHER -> Return(Success)

get_exchange_rate_match(o, t, d) ==
    CASE o.type = "Ok" /\ o.app = "Ok" -> Return(Success)
      [] o.type = "Ok" /\ o.app = "Err" -> Return(Failure("XRC returned an error", o))
      [] OTHER -> Return(Failure("Error calling XRC", o))

\* sign_message_match retrying when the system gave up waiting
sign_message_match_retry(o, t, d) ==
    CASE o.type = "Ok" -> Return(Success)
      [] o.type = "SysUnknown" -> Continue
      [] OTHER -> Return(Failure("Error signing message", o))

\* sign_message_match reporting lost cycles for every error
sign_message_match_always_lost(o, t, d) ==
    CASE o.type = "Ok" -> Return(Success)
      [] OTHER -> Return(Failure("Got a SysUnknown error while signing message", o))

sign_message_match(o, t, d) ==
    CASE o.type = "Ok" -> Return(Success)
      [] o.type = "SysUnknown" ->
            Return(Failure("Got a SysUnknown error while signing message", o))
      [] OTHER -> Return(Failure("Error signing message", o))

\* call_increment_match without the `if e.is_sync()` guard
call_increment_match_no_sync_guard(o, t, d) ==
    CASE o.type = "Ok" -> Return(Success)
      [] o.type = "CallRejected" /\ o.code = "SysFatal" ->
            Return(Failure("The call was rejected with a fatal error", o))
      [] o.type = "CallRejected" /\ o.code = "SysTransient" ->
            Return(Failure("The call was rejected with a synchronous transient error", o))
      [] o.type = "CallRejected" /\ o.code = "CanisterReject" ->
            Return(Failure("The call made it to the canister but was rejected", o))
      [] o.type = "CandidDecodeFailed" ->
            Return(Failure("The counter canister returned an non-unit response", o))
      [] o.type = "CanisterError" ->
            Return(Failure("The counter canister returned an error", o))

\* Call::new is an unbounded-wait call, so there is no arm for SysUnknown;
\* the text after the first match repeats stubborn_set's loop body.
call_increment_match(o, t, d) ==
    CASE o.type = "Ok" -> Return(Success)
      [] o.type = "CallRejected" /\ o.code = "SysFatal" ->
            Return(Failure("The call was rejected with a fatal error", o))
      [] o.type = "CallRejected" /\ o.code = "SysTransient" /\ o.sync ->
            Return(Failure("The call was rejected with a synchronous transient error", o))
      [] o.type = "CallRejected" /\ o.code = "SysTransient" /\ ~o.sync ->
            Return(Failure("The call was rejected with an asynchronous transient error", o))
      [] o.type = "CallRejected" /\ o.code = "CanisterReject" ->
            Return(Failure("The call made it to the canister but was rejected", o))
      [] o.type = "CandidDecodeFailed" ->
            Return(Failure("The counter canister returned an non-unit response", o))
      [] o.type = "CanisterError" ->
            Return(Failure("The counter canister returned an error", o))

\* expect(): the reply of the k-th call is unwrapped, an error panics.
call_get_and_set_match(k, o) ==
    IF o.type # "Ok"
    THEN Panic("Failed to get the old value. Bail out", o)
    ELSE IF k < Len(call_get_and_set_calls) THEN NextCall ELSE Return(Success)

set_then_get_match(k, o) ==
    IF o.type # "Ok"
    THEN Panic(IF k = 1 THEN "Failed to set the value. Bail ing out"
                        ELSE "Failed to get the current_value value. Bail out", o)
    ELSE IF k < Len(set_then_get_calls) THEN NextCall ELSE Return(Success)

increment_twice_match(k, o) ==
    IF o.type # "Ok"
    THEN Panic(CASE k = 1 -> "An error happened during the call. Bail out in this simple example"
                 [] k = 2 -> "Error in the first increment. Bail out"
                 [] k = Len(increment_twice_calls) -> "Failed to get the final value. Bail out"
                 [] OTHER -> "Failed in the second increment. Bail out", o)
    ELSE IF k < Len(increment_twice_calls) THEN NextCall ELSE Return(Success)

Match(f, ph, k, o, t, d) ==
    CASE f = "call_get_and_set" -> call_get_and_set_match(k, o)
      [] f = "set_then_get" -> set_then_get_match(k, o)
      [] f = "increment_twice" -> increment_twice_match(k, o)
      [] f = "stubborn_set" -> stubborn_set_match(o, t, d)
      [] f = "icrc1_get_fee" -> icrc1_get_fee_match(o, t, d)
      [] f = "icrc1_transfer" /\ ph = "fee" -> icrc1_transfer_fee_match(o, t, d)
      [] f = "icrc1_transfer" /\ ph = "main" -> icrc1_transfer_match(o, t, d)
      [] f = "icp_transfer" -> icp_transfer_match(o, t, d)
      [] f = "get_exchange_rate" -> get_exchange_rate_match(o, t, d)
      [] f = "sign_message" -> sign_message_match(o, t, d)
      [] f = "call_increment" -> call_increment_match(o, t, d)

\* The failure kind the caller of the entry point can read off the result.
ReportedKind(r) ==
    IF r = TimedOut THEN "Timeout" ELSE classify(r.err)

----------------------------------------------------------------------------
(* The call facility *)

\* Outcomes one call can have.  SysUnknown exists for bounded-wait calls only.
Outcomes(f, ph) ==
    (IF NestedReply(f, ph) THEN {Delivered("Ok"), Delivered("Err")}
                           ELSE {Delivered("Value")})
    \cup {Rejected(c, s) : c \in RejectCodes, s \in BOOLEAN}
    \cup {CandidDecodeFailed, CanisterError}
    \cup (IF WaitDiscipline(f, ph) = "Bounded" THEN {SysUnknown} ELSE {})

\* How many times the callee applied the operation, given the outcome:
\* not at all when the call was rejected or the callee answered with an
\* error, once when it answered with success, unknown otherwise.
Applied(o) ==
    CASE o.type = "CallRejected" -> {0}
      [] o.type = "Ok" -> IF o.app = "Err" THEN {0} ELSE {1}
      [] OTHER -> {0, 1}

\* Cycles the facility gives back with the outcome of a call that had c
\* cycles attached: all of them when the call was rejected, none when the
\* system gave up waiting or the callee was reached and kept its fee.
Refund(o, c) == IF o.type = "CallRejected" THEN c ELSE 0

\* The counter canister: the value it holds after executing a method and
\* the value it replies with.
CounterAfter(method, v, c) ==
    CASE method \in {"set", "get_and_set"} -> v
      [] method \in {"inc", "increment"} -> c + 1
      [] OTHER -> c

CounterReply(method, c) ==
    IF method \in {"get", "get_and_set"} THEN <<c>> ELSE <<>>

----------------------------------------------------------------------------
(* State machine *)

Init ==
    /\ fn = "none"
    /\ pc = "Idle"
    /\ phase = "main"
    /\ now = 0
    /\ deadline = 0
    /\ attempts = 0
    /\ outcome = NoOutcome
    /\ failKinds = {}
    /\ failed = 0
    /\ executed = 0
    /\ result = NoResult
    /\ delivered = 0
    /\ lastIssuedAt = 0
    /\ inFlight = 0
    /\ step = 1
    /\ arg = BuildArg("none", 0, 0)
    /\ sent = {}
    /\ balance = InitialBalance
    /\ counter = 0
    /\ replies = <<>>
    /\ interfered = FALSE

\* Issue issuing the call twice
Issue_twice(f, ph, k, a) ==
    /\ attempts' = attempts + 2
    /\ inFlight' = inFlight + 2
    /\ lastIssuedAt' = now
    /\ balance' = balance - 2 * Cycles(f, ph)
    /\ sent' = IF ph = "main"
               THEN sent \cup {[target |-> Target(f, ph), method |-> Method(f, ph, k),
                                arg |-> AttemptArg(a, now)]}
               ELSE sent
    /\ pc' = "Awaiting"

\* Build the k-th call of f with argument a, attach the cycles and await it.
Issue(f, ph, k, a) ==
    /\ attempts' = attempts + 1
    /\ inFlight' = inFlight + 1
    /\ lastIssuedAt' = now
    /\ balance' = balance - Cycles(f, ph)
    /\ sent' = IF ph = "main"
               THEN sent \cup {[target |-> Target(f, ph), method |-> Method(f, ph, k),
                                arg |-> AttemptArg(a, now)]}
               ELSE sent
    /\ pc' = "Awaiting"

\* Entry points without guard: the first call is issued at once.
EnterWith(f, ph, v) ==
    /\ pc = "Idle"
    /\ fn' = f
    /\ phase' = ph
    /\ arg' = BuildArg(f, v, now)
    /\ Issue(f, ph, 1, arg')
    /\ UNCHANGED <<now, outcome, failKinds, failed, executed, result, delivered,
                   step, counter, replies, interfered>>

Enter(f) == EnterWith(f, "main", 0)

stubborn_set ==
    /\ \E value \in Values : EnterWith("stubborn_set", "main", value)
    /\ deadline' = now + Timeout

icrc1_get_fee == Enter("icrc1_get_fee") /\ UNCHANGED deadline

get_exchange_rate == Enter("get_exchange_rate") /\ UNCHANGED deadline

sign_message == Enter("sign_message") /\ UNCHANGED deadline

call_increment == Enter("call_increment") /\ UNCHANGED deadline

call_get_and_set ==
    /\ \E new_value \in Values : EnterWith("call_get_and_set", "script", new_value)
    /\ UNCHANGED deadline

set_then_get ==
    /\ \E new_value \in Values : EnterWith("set_then_get", "script", new_value)
    /\ UNCHANGED deadline

increment_twice == EnterWith("increment_twice", "script", 0) /\ UNCHANGED deadline

\* Only the owner may transfer.
icp_transfer ==
    /\ pc = "Idle"
    /\ fn' = "icp_transfer"
    /\ arg' = BuildArg("icp_transfer", 0, now)
    /\ \E msg_caller \in {"owner", "other"} :
          IF msg_caller # "owner"
          THEN /\ pc' = "Returned"
               /\ result' = Failure("Only the owner can ask to transfer ICP", NoOutcome)
               /\ UNCHANGED <<attempts, lastIssuedAt, inFlight, sent, balance>>
          ELSE /\ Issue("icp_transfer", "main", 1, arg')
               /\ UNCHANGED result
    /\ UNCHANGED <<phase, now, deadline, outcome, failKinds, failed, executed,
                   delivered, step, counter, replies, interfered>>

\* The fee is obtained first, by a call to this canister's icrc1_get_fee.
icrc1_transfer ==
    /\ pc = "Idle"
    /\ fn' = "icrc1_transfer"
    /\ phase' = "fee"
    /\ inFlight' = inFlight + 1
    /\ pc' = "Awaiting"
    /\ UNCHANGED <<now, deadline, attempts, outcome, failKinds, failed, executed,
                   result, delivered, lastIssuedAt, step, arg, sent, balance,
                   counter, replies, interfered>>

\* The facility completes the call in flight.
Respond ==
    /\ pc = "Awaiting"
    /\ inFlight >= 1
    /\ delivered < MaxPerTick
    /\ \E o \in Outcomes(fn, phase) :
          /\ ~(Dedup(fn) /\ phase = "main" /\ executed >= 1 /\ o = Delivered("Ok"))
          /\ outcome' = o
          /\ \E n \in Applied(o) :
                LET method == Method(fn, phase, step) IN
                /\ executed' = IF phase # "main" \/ (Dedup(fn) /\ executed >= 1)
                               THEN executed
                               ELSE executed + n
                /\ counter' = IF n = 1 /\ fn \in CounterSites
                              THEN CounterAfter(method, arg.value, counter)
                              ELSE counter
                /\ interfered' = IF n = 1 /\ (step = 1 \/ method \in {"set", "get_and_set"})
                                 THEN FALSE
                                 ELSE interfered
                /\ replies' = IF o.type = "Ok" /\ fn \in CounterSites
                              THEN replies \o CounterReply(method, counter)
                              ELSE replies
          /\ failKinds' = IF phase = "main" /\ IsFailure(o)
                          THEN failKinds \cup {classify(o)}
                          ELSE failKinds
          /\ failed' = IF phase = "main" /\ IsFailure(o) THEN failed + 1 ELSE failed
          /\ balance' = balance + Refund(o, Cycles(fn, phase))
    /\ delivered' = delivered + 1
    /\ inFlight' = inFlight - 1
    /\ pc' = "Handling"
    /\ UNCHANGED <<fn, phase, now, deadline, attempts, result, lastIssuedAt,
                   step, arg, sent>>

\* The entry point resumes after its await and matches on the outcome.
Resume ==
    /\ pc = "Handling"
    /\ LET m == Match(fn, phase, step, outcome, now, deadline) IN
          CASE m.act = "continue" ->
                  /\ Issue(fn, phase, step, arg)
                  /\ UNCHANGED <<phase, step, arg, result>>
            [] m.act = "next" ->
                  /\ Issue(fn, phase, step + 1, arg)
                  /\ step' = step + 1
                  /\ UNCHANGED <<phase, arg, result>>
            [] m.act = "proceed" ->
                  /\ phase' = "main"
                  /\ arg' = BuildArg(fn, arg.value, now)
                  /\ Issue(fn, "main", step, arg')
                  /\ UNCHANGED <<step, result>>
            [] m.act = "return" ->
                  /\ pc' = "Returned"
                  /\ result' = m.res
                  /\ UNCHANGED <<phase, step, arg, attempts, lastIssuedAt, inFlight,
                                 sent, balance>>
            [] m.act = "panic" ->
                  /\ pc' = "Panicked"
                  /\ result' = m.res
                  /\ UNCHANGED <<phase, step, arg, attempts, lastIssuedAt, inFlight,
                                 sent, balance>>
    /\ UNCHANGED <<fn, now, deadline, outcome, failKinds, failed, executed,
                   delivered, counter, replies, interfered>>

\* Another flow writes the counter while this one is suspended.
OtherFlow ==
    /\ pc \in {"Awaiting", "Handling"}
    /\ fn \in CounterSites
    /\ \E v \in Values : counter' = v
    /\ interfered' = TRUE
    /\ UNCHANGED <<fn, pc, phase, now, deadline, attempts, outcome, failKinds,
                   failed, executed, result, delivered, lastIssuedAt, inFlight,
                   step, arg, sent, balance, replies>>

\* Time passes while the entry point is suspended.
Tick ==
    /\ pc \in {"Awaiting", "Handling"}
    /\ now < MaxTime
    /\ now' = now + 1
    /\ delivered' = 0
    /\ UNCHANGED <<fn, pc, phase, deadline, attempts, outcome, failKinds, failed,
                   executed, result, lastIssuedAt, inFlight, step, arg, sent,
                   balance, counter, replies, interfered>>

Next ==
    \/ stubborn_set
    \/ icrc1_get_fee
    \/ icrc1_transfer
    \/ icp_transfer
    \/ get_exchange_rate
    \/ sign_message
    \/ call_increment
    \/ call_get_and_set
    \/ set_then_get
    \/ increment_twice
    \/ Respond
    \/ Resume
    \/ OtherFlow
    \/ Tick

Spec == Init /\ [][Next]_vars

\* Every call gets a response, the callback runs, and time goes on.
FairSpec == Spec /\ WF_vars(Respond) /\ WF_vars(Resume) /\ WF_vars(Tick)

TypeOK ==
    /\ fn \in Functions \cup {"none"}
    /\ pc \in {"Idle", "Awaiting", "Handling", "Returned", "Panicked"}
    /\ phase \in {"fee", "main", "script"}
    /\ now \in 0..MaxTime
    /\ attempts \in Nat
    /\ executed \in 0..attempts
    /\ failed \in 0..attempts
    /\ delivered \in 0..MaxPerTick
    /\ inFlight \in 0..1
    /\ step \in 1..4
    /\ balance \in 0..InitialBalance
    /\ counter \in Nat
    /\ arg.value \in Values
    /\ interfered \in BOOLEAN

----------------------------------------------------------------------------
(* Properties *)

\* A step in which the entry point resumes and issues a further attempt.
Retries == pc = "Handling" /\ phase = "main" /\ attempts' = attempts + 1

\* A step in which the entry point resumes after an attempt of the operation.
Resumes == pc = "Handling" /\ phase = "main" /\ pc' # "Handling"

\* stubborn_set's test `time() > deadline`.
Expired == fn = "stubborn_set" /\ now > deadline

\* C1: a further attempt is issued after a failed attempt only if the
\* failure is a rejection (the callee did not execute the call) or the
\* operation is idempotent.
RetryOnlyIfNotExecutedOrIdempotent ==
    [][(Retries /\ IsFailure(outcome))
          => (outcome.type = "CallRejected" \/ Idempotent(fn))]_vars

RetriedAfterExecutionUnknown ==
    /\ fn \in RetryLoops
    /\ pc = "Awaiting"
    /\ attempts >= 2
    /\ "ExecutionUnknown" \in failKinds

\* C2: when the operation is not idempotent and the system gave up waiting
\* (SysUnknown), the entry point returns a failure of kind ExecutionUnknown
\* at once and issues no second attempt, whatever the time.
NonIdempotentUnknownGivesUp ==
    [][(Resumes /\ ~Idempotent(fn) /\ outcome = SysUnknown)
          => /\ pc' = "Returned"
             /\ attempts' = attempts
             /\ ~result'.ok
             /\ ReportedKind(result') = "ExecutionUnknown"]_vars

NonIdempotentGaveUp ==
    /\ fn \in {"sign_message", "get_exchange_rate"}
    /\ pc = "Returned"
    /\ outcome = SysUnknown
    /\ attempts = 1
    /\ ReportedKind(result) = "ExecutionUnknown"

\* C3: in stubborn_set no attempt is issued at a decision point at which
\* the deadline has expired.
NoRetryAfterDeadline ==
    [][(fn = "stubborn_set" /\ pc = "Handling" /\ now > deadline)
          => attempts' = attempts]_vars

TimedOutOnExecutionUnknown ==
    /\ fn = "stubborn_set"
    /\ pc = "Returned"
    /\ result = TimedOut
    /\ outcome = SysUnknown
    /\ now > deadline

\* C4: a synchronous transient rejection is never followed by a further
\* attempt in the local loop.
SyncTransientNeverRetried ==
    [][(pc = "Handling" /\ phase = "main" /\ classify(outcome) = "SyncTransient")
          => attempts' = attempts]_vars

\* C5: in a retry loop an asynchronous transient rejection decided while the
\* deadline is not expired is always followed by a new attempt.
AsyncTransientRetried ==
    [][(Resumes /\ fn \in RetryLoops /\ classify(outcome) = "AsyncTransient"
                /\ ~Expired)
          => attempts' = attempts + 1]_vars

\* C6: when every failed attempt is an asynchronous transient rejection the
\* callee applies the operation at most once over the whole run.
AsyncTransientNeverDuplicates ==
    failKinds \subseteq {"AsyncTransient"} => executed <= 1

RetriedAsyncThenExecutedOnce ==
    /\ failKinds = {"AsyncTransient"}
    /\ attempts >= 2
    /\ executed = 1
    /\ pc = "Returned"
    /\ result.ok

\* C7: an unbounded-wait call never has the outcome SysUnknown, so the
\* unreachable!() of icp_transfer is never executed.
UnboundedNeverExecutionUnknown ==
    /\ WaitDiscipline(fn, phase) = "Unbounded"
          => (outcome # SysUnknown /\ "ExecutionUnknown" \notin failKinds)
    /\ result.msg # "unreachable"

UnboundedCallFailed ==
    /\ fn = "icp_transfer"
    /\ WaitDiscipline(fn, phase) = "Unbounded"
    /\ pc \in {"Returned", "Panicked"}
    /\ failed = 1

\* C8: in stubborn_set, when a success is delivered before the deadline
\* after failed attempts that were all AsyncTransient or ExecutionUnknown,
\* the loop ends with success and the attempts are the failures plus one.
RetriesThenSuccessTerminates ==
    (/\ fn = "stubborn_set"
     /\ pc = "Handling"
     /\ outcome.type = "Ok"
     /\ now <= deadline
     /\ failKinds \subseteq {"AsyncTransient", "ExecutionUnknown"})
    ~> (pc = "Returned" /\ result = Success /\ attempts = failed + 1)

UnknownThenSuccess ==
    /\ fn = "stubborn_set"
    /\ pc = "Returned"
    /\ result = Success
    /\ failKinds = {"ExecutionUnknown"}
    /\ attempts = 2

\* C9: in stubborn_set, unless some attempt has an outcome other than
\* AsyncTransient, the loop ends with the timeout failure, and its last
\* attempt was issued while the deadline had not expired.
AsyncTransientUntilTimeout ==
    (fn = "stubborn_set" /\ pc = "Awaiting")
    ~> \/ outcome.type = "Ok"
       \/ ~(failKinds \subseteq {"AsyncTransient"})
       \/ (pc = "Returned" /\ result = TimedOut /\ lastIssuedAt <= deadline)

TimedOutOnAsyncTransient ==
    /\ fn = "stubborn_set"
    /\ pc = "Returned"
    /\ result = TimedOut
    /\ failKinds = {"AsyncTransient"}
    /\ attempts >= 2
    /\ lastIssuedAt <= deadline

\* C10: once a delivered reply has been interpreted (as success or as an
\* application-level error) the entry point returns and issues no further
\* attempt.
DeliveredIsTerminal ==
    [][(Resumes /\ outcome.type = "Ok")
          => (pc' = "Returned" /\ attempts' = attempts)]_vars

\* C11: a fatal rejection is never retried: the entry point returns a
\* failure of kind Fatal right after the attempt, so a fatal rejection of
\* the first attempt ends the run after exactly one attempt.
FatalNeverRetried ==
    [][(Resumes /\ classify(outcome) = "Fatal")
          => /\ pc' = "Returned"
             /\ attempts' = attempts
             /\ ~result'.ok
             /\ ReportedKind(result') = "Fatal"]_vars

FatalOnFirstAttempt ==
    /\ fn \in {"stubborn_set", "icrc1_get_fee"}
    /\ pc = "Returned"
    /\ outcome = Rejected("SysFatal", TRUE)
    /\ ReportedKind(result) = "Fatal"
    /\ attempts = 1

PanicSites == ExpectSites \cup {"icp_transfer"}

\* C13 as stated: a failed outcome that ends the run ends it with a
\* returned failure, never with a panic.
FailureAlwaysReturned ==
    [][(pc = "Handling" /\ IsFailure(outcome) /\ pc' \notin {"Handling", "Awaiting"})
          => (pc' = "Returned" /\ ~result'.ok)]_vars

\* C13: a failed outcome is followed by a new attempt, by a returned error
\* whose message names the raw error (the timeout message excepted), or, in
\* icp_transfer on a decode failure or a crash and in the entry points that
\* expect() their replies, by a panic that names the raw error; it is never
\* reported as success.
FailureReturnedOrPanicked ==
    [][(pc = "Handling" /\ IsFailure(outcome) /\ pc' # "Handling")
          => \/ /\ pc' = "Awaiting"
                /\ attempts' = attempts + 1
             \/ /\ pc' = "Returned"
                /\ ~result'.ok
                /\ result'.msg # "none"
                /\ (result'.err = outcome \/ result' = TimedOut)
             \/ /\ pc' = "Panicked"
                /\ fn \in PanicSites
                /\ fn = "icp_transfer" => outcome.type # "CallRejected"
                /\ ~result'.ok
                /\ result'.err = outcome]_vars

LedgerCrashPanicked ==
    /\ fn = "icp_transfer"
    /\ pc = "Panicked"
    /\ outcome = CanisterError
    /\ result.msg = "Ledger crashed"

\* C14 as stated: in stubborn_set a SyncTransient, AsyncTransient or
\* ExecutionUnknown failure decided after the deadline gives the timeout
\* failure.
ExpiredGivesTimeout ==
    [][(Resumes /\ Expired
          /\ classify(outcome) \in {"SyncTransient", "AsyncTransient", "ExecutionUnknown"})
          => result' = TimedOut]_vars

\* C14: in stubborn_set an AsyncTransient or ExecutionUnknown failure
\* decided after the deadline gives the timeout failure, which differs from
\* every rejection failure; a SyncTransient failure gives the "cannot retry"
\* failure that names the rejection, expired or not.
ExpiredRetryableGivesTimeout ==
    [][(Resumes /\ fn = "stubborn_set")
          => /\ (Expired /\ classify(outcome) \in {"AsyncTransient", "ExecutionUnknown"})
                  => /\ pc' = "Returned"
                     /\ result' = TimedOut
                     /\ ReportedKind(result') = "Timeout"
             /\ classify(outcome) = "SyncTransient"
                  => /\ pc' = "Returned"
                     /\ result' = Failure("Failed to get the value and cannot retry", outcome)
                     /\ ReportedKind(result') = "SyncTransient"]_vars

SyncTransientAfterDeadline ==
    /\ fn = "stubborn_set"
    /\ pc = "Returned"
    /\ now > deadline
    /\ ReportedKind(result) = "SyncTransient"

\* C15: at most one call is in flight, and an attempt is issued only when
\* the outcome of the one before has been received.
AttemptsSequential ==
    [][/\ inFlight' <= 1
       /\ attempts' > attempts => (inFlight = 0 /\ pc # "Awaiting")]_vars

SecondAttemptInFlight ==
    /\ fn \in RetryLoops
    /\ attempts >= 2
    /\ inFlight = 1
    /\ failed = attempts - 1

\* C16: all attempts of an operation carry the same target, method and
\* argument, created_at_time included.
SamePayloadAcrossRetries == Cardinality(sent) <= 1

TransferRetriedLater ==
    /\ fn = "icrc1_transfer"
    /\ attempts >= 2
    /\ lastIssuedAt > arg.created_at_time
    /\ Cardinality(sent) = 1

ClassifyTotal ==
    /\ IsFailure(outcome) => classify(outcome) \in FailureKinds
    /\ failKinds \subseteq FailureKinds

ClassifiedCanisterReject ==
    /\ pc = "Handling"
    /\ outcome = Rejected("CanisterReject", TRUE)
    /\ classify(outcome) = "CalleeError"

\* C19: the value set_then_get returns is the new value unless another flow
\* wrote the counter after the set was executed and before the get was.
SetThenGetEqualUnlessInterfered ==
    (fn = "set_then_get" /\ pc = "Returned")
        => (Len(replies) = 1 /\ (replies[1] = arg.value \/ interfered))

SetThenGetDiffers ==
    /\ fn = "set_then_get"
    /\ pc = "Returned"
    /\ result.ok
    /\ replies[1] # arg.value

\* C20: the final value increment_twice returns is the initial value plus 2
\* unless another flow wrote the counter after the first get was executed.
IncrementTwiceEqualUnlessInterfered ==
    (fn = "increment_twice" /\ pc = "Returned")
        => (Len(replies) = 2 /\ (replies[2] = replies[1] + 2 \/ interfered))

IncrementTwiceDiffers ==
    /\ fn = "increment_twice"
    /\ pc = "Returned"
    /\ result.ok
    /\ attempts = 4
    /\ replies[2] # replies[1] + 2

\* The failure kind an error message stands for: the arm that produced it.
ArmKind(msg) ==
    CASE msg = "The call was rejected with a fatal error" -> "Fatal"
      [] msg = "The call was rejected with a synchronous transient error" -> "SyncTransient"
      [] msg = "The call was rejected with an asynchronous transient error" -> "AsyncTransient"
      [] msg = "The call made it to the canister but was rejected" -> "CalleeError"
      [] msg \in {"The counter canister returned an error", "Ledger crashed"} -> "CalleeError"
      [] msg \in {"The counter canister returned an non-unit response",
                  "Unable to decode the fee", "Unable to decode the ledger response",
                  "Decoding failed"} -> "DecodeFailure"
      [] msg = "Got a SysUnknown error while signing message" -> "ExecutionUnknown"
      [] OTHER -> "None"

\* C21: a fatal rejection is Fatal, a synchronous transient rejection
\* SyncTransient, an asynchronous one AsyncTransient, an explicit refusal
\* and a callee fault CalleeError, a decode failure DecodeFailure and a
\* gave-up-waiting outcome ExecutionUnknown: classify gives that kind, and
\* an error message that names a kind is returned for outcomes of that kind.
ClassifyFollowsMapping ==
    LET mapping ==
            CASE outcome.type = "CallRejected" /\ outcome.code = "SysFatal" -> "Fatal"
              [] outcome.type = "CallRejected" /\ outcome.code = "SysTransient"
                    -> IF outcome.sync THEN "SyncTransient" ELSE "AsyncTransient"
              [] outcome.type = "CallRejected" /\ outcome.code = "CanisterReject"
                    -> "CalleeError"
              [] outcome.type = "CanisterError" -> "CalleeError"
              [] outcome.type = "CandidDecodeFailed" -> "DecodeFailure"
              [] outcome.type = "SysUnknown" -> "ExecutionUnknown"
              [] OTHER -> "None"
    IN  /\ classify(outcome) = mapping
        /\ ArmKind(result.msg) # "None" => ArmKind(result.msg) = mapping

ReportedAsyncTransient ==
    /\ fn = "call_increment"
    /\ pc = "Returned"
    /\ outcome = Rejected("SysTransient", FALSE)
    /\ ArmKind(result.msg) = "AsyncTransient"

\* C22: stubborn_set consults the deadline only when it decides after a
\* failed attempt of a retryable kind: the first attempt is issued on
\* entry, an attempt in flight stays in flight until its response arrives
\* whatever the time, a success is returned as success whatever the time,
\* and a failure of a kind that is not retried is never reported as a timeout.
DeadlineOnlyAtDecision ==
    [][/\ (pc = "Idle" /\ fn' = "stubborn_set") => (pc' = "Awaiting" /\ attempts' = 1)
       /\ (fn = "stubborn_set" /\ pc = "Awaiting") =>
             /\ pc' \in {"Awaiting", "Handling"}
             /\ attempts' = attempts
             /\ inFlight' = IF pc' = "Handling" THEN inFlight - 1 ELSE inFlight
       /\ (fn = "stubborn_set" /\ Resumes /\ outcome.type = "Ok") =>
             (pc' = "Returned" /\ result' = Success)
       /\ (fn = "stubborn_set" /\ Resumes /\ IsFailure(outcome)
             /\ outcome.type # "SysUnknown"
             /\ outcome # Rejected("SysTransient", FALSE)) =>
             (pc' = "Returned" /\ result' # TimedOut /\ result'.err = outcome)]_vars

SuccessAfterDeadline ==
    /\ fn = "stubborn_set"
    /\ pc = "Returned"
    /\ result = Success
    /\ lastIssuedAt <= deadline
    /\ now > deadline

\* C23: the loops of icrc1_get_fee and icrc1_transfer have no deadline and
\* no attempt cap: whatever the time and the number of attempts so far, an
\* outcome the loop retries (SysUnknown, or the rejection it continues on)
\* is followed by another attempt and not by a return, and the function
\* returns only on a success or on a failure it does not retry.
LoopsRetryWithoutBound ==
    [][(fn \in {"icrc1_get_fee", "icrc1_transfer"} /\ Resumes) =>
          LET retried == \/ outcome = SysUnknown
                         \/ outcome = Rejected("SysTransient", TRUE)
          IN  /\ retried => (pc' = "Awaiting" /\ attempts' = attempts + 1)
              /\ pc' \in {"Returned", "Panicked"} =>
                    /\ pc' = "Returned"
                    /\ ~retried
                    /\ \/ outcome.type = "Ok" /\ result' = Success
                       \/ IsFailure(outcome) /\ result' # TimedOut
                            /\ result'.err = outcome]_vars

RetriedPastEveryTimeout ==
    /\ fn \in {"icrc1_get_fee", "icrc1_transfer"}
    /\ phase = "main"
    /\ pc = "Awaiting"
    /\ attempts >= 4
    /\ failed = attempts - 1
    /\ failKinds \subseteq {"ExecutionUnknown", "SyncTransient"}
    /\ now > Timeout

\* C24: once stubborn_set has returned success for a value, and no other
\* flow has written the counter since the flow's set was last executed,
\* the counter holds that value, however many of the attempts the counter
\* canister executed.
StubbornSetLeavesValue ==
    (fn = "stubborn_set" /\ pc = "Returned" /\ result = Success /\ ~interfered)
        => (counter = arg.value /\ executed >= 1)

SetExecutedSeveralTimes ==
    /\ fn = "stubborn_set"
    /\ pc = "Returned"
    /\ result = Success
    /\ ~interfered
    /\ executed >= 2
    /\ arg.value = 1
    /\ counter = 1

\* C25: icp_transfer, get_exchange_rate and sign_message have issued
\* exactly one remote invocation when they finish, whatever the outcome,
\* and the ledger has executed the ICP transfer at most once.
ExactlyOneInvocation ==
    fn \in {"icp_transfer", "get_exchange_rate", "sign_message"} =>
        /\ attempts <= 1
        /\ executed <= 1
        /\ pc \in {"Returned", "Panicked"} => attempts = 1

\* C25, amended: the call sites without a loop issue at most one remote
\* invocation, exactly one whatever its outcome once the call is made, and
\* none when icp_transfer refuses a caller that is not the owner; the
\* ledger has executed the ICP transfer at most once.
AtMostOneInvocation ==
    fn \in {"icp_transfer", "get_exchange_rate", "sign_message"} =>
        /\ attempts <= 1
        /\ executed <= 1
        /\ pc \in {"Awaiting", "Handling"} => attempts = 1
        /\ pc \in {"Returned", "Panicked"} =>
              attempts = IF result.msg = "Only the owner can ask to transfer ICP"
                         THEN 0 ELSE 1

TransferFailedAfterOneCall ==
    /\ fn = "icp_transfer"
    /\ pc \in {"Returned", "Panicked"}
    /\ IsFailure(outcome)
    /\ attempts = 1
    /\ executed <= 1

\* C26: icrc1_transfer issues its first transfer attempt only on resuming
\* from a fee call that returned successfully; a failed fee call makes it
\* return an error, and no transfer attempt is issued to the ledger then
\* or later.
TransferOnlyAfterFee ==
    [][fn' = "icrc1_transfer" =>
          /\ phase' = "fee" => (attempts' = 0 /\ sent' = {} /\ executed' = 0)
          /\ (attempts = 0 /\ attempts' > 0) =>
                /\ fn = "icrc1_transfer"
                /\ pc = "Handling"
                /\ phase = "fee"
                /\ outcome.type = "Ok"
                /\ attempts' = 1
          /\ (fn = "icrc1_transfer" /\ phase = "fee" /\ pc = "Handling"
                /\ IsFailure(outcome) /\ pc' # "Handling") =>
                /\ pc' = "Returned"
                /\ phase' = "fee"
                /\ result' = Failure("Error obtaining the fee from the ledger canister",
                                     outcome)
          /\ (fn = "icrc1_transfer" /\ pc = "Returned") => UNCHANGED <<pc, phase, attempts>>]_vars

FeeCallFailed ==
    /\ fn = "icrc1_transfer"
    /\ phase = "fee"
    /\ pc = "Returned"
    /\ IsFailure(outcome)
    /\ ~result.ok
    /\ attempts = 0
    /\ sent = {}

====
